---- MODULE Spec2Model ----
(***************************************************************************)
(* A model of the tutorial's chatbot: the command-line loop of stages 05   *)
(* and 06 (cli_chatbot.py), the conversation bookkeeping of                *)
(* get_gemini_response (langchain_gemini_db.py) and the dynamic SQL helper *)
(* query_database (database_tool.py, database_utils.py).                   *)
(*                                                                         *)
(* Texts are sequences of strings.  An input line is a sequence of         *)
(* one-character strings, so that str.strip() and str.lower() are computed *)
(* character by character; a message built by an f-string is the sequence  *)
(* of its literal pieces and its interpolated values.  An optional Python  *)
(* value is None (the empty tuple) or Some(v) (the one-element tuple).     *)
(***************************************************************************)
EXTENDS Integers, Sequences, FiniteSets, TLC

VARIABLES
    stage,                  \* 5: 05-enhance-db-prompt, 6: 06-multi-table-db
    pc,                     \* "loop": run_chatbot waits for input, "done": after break
    root_level,             \* logging.getLogger().level
    verbose_state,          \* current_verbose_state / langchain_executor_verbose
    current_chat_history,   \* the local of run_chatbot
    reads,                  \* number of input() calls so far
    user_input,             \* the stripped line of the last iteration
    printed,                \* what the last iteration printed, line by line
    calls,                  \* number of calls of get_gemini_response
    last_call,              \* arguments of the last call of get_gemini_response
    turn_outcome,           \* how the last iteration ended
    last_verbose,           \* the last verbose command handled: "none", "on", "off"
    g_pc, g_prompt, g_history, g_result,
                            \* one direct call of get_gemini_response
    env_ok,                 \* DB_USER, DB_PASSWORD and DB_DSN are all set
    engine,                 \* the module global _engine: TRUE once created
    q_pc,                   \* "idle", "called": a tool call is pending, "returned"
    q_args, q_db, q_sql, q_rows, q_result,
        \* the current call of query_database: its arguments, what the
        \* database did, the SQL text executed, the rows fetched, the outcome
    meta_file,              \* table_metadata.json: missing, invalid or its pairs
    db_tables,              \* the table names the schema shows, in order
    table_metadata_cache,   \* the module global _table_metadata_cache
    u_pc, u_call, u_db, u_result,
                            \* the current call of a database_utils helper of
                            \* stage 06: the call, what the database did, the outcome
    r_table,                \* the rows of the table execute_read_query reads
    r_pc, r_args, r_db, r_stmt, r_rows, r_result
                            \* the current call of execute_read_query (stage 05)

cli_vars == <<stage, pc, root_level, verbose_state, current_chat_history,
              reads, user_input, printed, calls, last_call, turn_outcome,
              last_verbose>>
call_vars == <<g_pc, g_prompt, g_history, g_result>>
db_vars == <<env_ok, engine, q_pc, q_args, q_db, q_sql, q_rows, q_result>>
util_vars == <<meta_file, db_tables, table_metadata_cache,
               u_pc, u_call, u_db, u_result>>
read_vars == <<r_table, r_pc, r_args, r_db, r_stmt, r_rows, r_result>>
vars == <<cli_vars, call_vars, db_vars, util_vars, read_vars>>

----------------------------------------------------------------------------
(* Bounds *)

MaxReads == 4       \* input lines read in one session
MaxHist == 2        \* turns of a history passed directly to get_gemini_response
MaxRows == 3        \* rows the inner query can yield
MaxLimit == 2       \* largest limit argument tried
MaxTableRows == 6   \* rows of the table execute_read_query reads

----------------------------------------------------------------------------
(* Python values *)

None == <<>>
Some(v) == <<v>>
Val(o) == o[1]

\* str.lower() on one character
UpperCase == <<"A","B","C","D","E","F","G","H","I","J","K","L","M",
               "N","O","P","Q","R","S","T","U","V","W","X","Y","Z">>
LowerCase == <<"a","b","c","d","e","f","g","h","i","j","k","l","m",
               "n","o","p","q","r","s","t","u","v","w","x","y","z">>

LowerChar(c) ==
    IF \E i \in 1..Len(UpperCase) : UpperCase[i] = c
    THEN LowerCase[CHOOSE i \in 1..Len(UpperCase) : UpperCase[i] = c]
    ELSE c

lower(s) == [i \in 1..Len(s) |-> LowerChar(s[i])]

IsSpace(c) == c \in {" ", "\t"}

RECURSIVE lstrip(_)
lstrip(s) == IF s # <<>> /\ IsSpace(Head(s)) THEN lstrip(Tail(s)) ELSE s

RECURSIVE rstrip(_)
rstrip(s) ==
    IF s # <<>> /\ IsSpace(s[Len(s)]) THEN rstrip(SubSeq(s, 1, Len(s) - 1)) ELSE s

strip(s) == rstrip(lstrip(s))

----------------------------------------------------------------------------
(* logging *)

LevelNo == [DEBUG |-> 10, INFO |-> 20, WARNING |-> 30, ERROR |-> 40]

\* set_logging_level(level): the numeric level the root logger gets.  The
\* callers pass the literals "DEBUG", "INFO" and "ERROR", which level.upper()
\* leaves as they are and getattr(logging, ...) finds.
set_logging_level(level) == LevelNo[level]

----------------------------------------------------------------------------
(* get_gemini_response *)

Turn(role, text) == [role |-> role, parts |-> <<[text |-> text]>>]

HumanMessage(content) == [type |-> "HumanMessage", content |-> content]
AIMessage(content) == [type |-> "AIMessage", content |-> content]

\* Python truth of a list argument: None and [] are false
Truthy(o) == o # None /\ Val(o) # <<>>

\* the loop that builds lc_chat_history
RECURSIVE LcMessages(_)
LcMessages(turns) ==
    IF turns = <<>> THEN <<>>
    ELSE LET turn == Head(turns)
             rest == LcMessages(Tail(turns))
         IN  IF turn.role = "human"
             THEN <<HumanMessage(turn.parts[1].text)>> \o rest
             ELSE IF turn.role = "model"
                  THEN <<AIMessage(turn.parts[1].text)>> \o rest
                  ELSE rest

\* a variant that makes every turn a HumanMessage
lc_chat_history_all_human(chat_history) ==
    IF Truthy(chat_history)
    THEN [i \in 1..Len(Val(chat_history)) |->
            HumanMessage(Val(chat_history)[i].parts[1].text)]
    ELSE <<>>

lc_chat_history(chat_history) ==
    IF Truthy(chat_history) THEN LcMessages(Val(chat_history)) ELSE <<>>

ConfigurationError(e) ==
    <<"Configuration Error: ">> \o e \o
    <<". Please ensure your VM has the correct service account and permissions (Vertex AI User role) and that your project/location are correctly configured if needed.">>

AgentError(e) ==
    <<"Error processing your request: ">> \o e \o <<". Please try again.">>

\* a variant that starts from an empty list whatever was passed
updated_history_fresh(prompt_text, chat_history, response_text) ==
    <<Turn("human", prompt_text), Turn("model", response_text)>>

\* the success path: list(chat_history) if chat_history else [], two appends
updated_history(prompt_text, chat_history, response_text) ==
    Append(Append(IF Truthy(chat_history) THEN Val(chat_history) ELSE <<>>,
                  Turn("human", prompt_text)),
           Turn("model", response_text))

\* get_gemini_response(prompt_text, chat_history, verbose) with the behaviour
\* of the two external calls given: setup is what setup_langchain_agent does
\* and agent what agent_executor.invoke does, each [raises |-> FALSE,
\* output |-> text] or [raises |-> TRUE, output |-> the exception's message].
\* The result is the returned pair, with the messages given to the agent
\* (None when the agent was not invoked).
get_gemini_response(prompt_text, chat_history, verbose, setup, agent) ==
    IF setup.raises
    THEN [text |-> ConfigurationError(setup.output), history |-> Some(<<>>),
          invoked |-> None]
    ELSE LET lc == lc_chat_history(chat_history)
             inv == Some([input |-> prompt_text, chat_history |-> lc,
                          verbose |-> verbose])
         IN  IF agent.raises
             THEN [text |-> AgentError(agent.output), history |-> chat_history,
                   invoked |-> inv]
             ELSE [text |-> agent.output,
                   history |-> Some(updated_history(prompt_text, chat_history,
                                                    agent.output)),
                   invoked |-> inv]

\* what the external calls can do
Responses == {<<"Brasilia">>, <<"RAG is retrieval">>}
Errors == {<<"quota exceeded">>}
SetupOutcomes == {[raises |-> FALSE, output |-> <<>>]}
                 \cup {[raises |-> TRUE, output |-> e] : e \in Errors}
AgentOutcomes == {[raises |-> FALSE, output |-> r] : r \in Responses}
                 \cup {[raises |-> TRUE, output |-> e] : e \in Errors}

----------------------------------------------------------------------------
(* run_chatbot *)

L_exit == <<"e","x","i","t">>
L_Quit == <<" ","Q","u","i","T"," ">>
L_on == <<"T","u","r","n"," ","v","e","r","b","o","s","e"," ","O","N">>
L_off == <<" ","t","u","r","n"," ","V","e","r","b","o","s","e"," ","o","f","f","\t">>
L_hi == <<" ","H","i","?"," ">>
L_exits == <<"e","x","i","t","s">>

InputLines == {L_exit, L_Quit, L_on, L_off, L_hi, L_exits}

ExitWords == {<<"e","x","i","t">>, <<"q","u","i","t">>}
VerboseOn == <<"t","u","r","n"," ","v","e","r","b","o","s","e"," ","o","n">>
VerboseOff == <<"t","u","r","n"," ","v","e","r","b","o","s","e"," ","o","f","f">>

\* a variant that compares only the first four characters
IsExit_prefix(line) ==
    LET s == lower(strip(line))
    IN  Len(s) >= 4 /\ SubSeq(s, 1, 4) \in ExitWords

IsExit(line) == lower(strip(line)) \in ExitWords
IsVerboseOn(line) == ~IsExit(line) /\ lower(strip(line)) = VerboseOn
IsVerboseOff(line) ==
    ~IsExit(line) /\ ~IsVerboseOn(line) /\ lower(strip(line)) = VerboseOff
\* a variant in which the verbose branches fall through to the try block
IsQuestion_fallthrough(line) == ~IsExit(line)

IsQuestion(line) == ~IsExit(line) /\ ~IsVerboseOn(line) /\ ~IsVerboseOff(line)

\* the level 'turn verbose on' sets
VerboseOnLevel_banner(st) == IF st = 5 THEN "INFO" ELSE "DEBUG"
VerboseOnLevel(st) == "DEBUG"

\* the level 'turn verbose off' sets: INFO in stage 05, ERROR in stage 06
VerboseOffLevel(st) == IF st = 5 THEN "INFO" ELSE "ERROR"

\* the verbose flag before any verbose command: stage 05 never assigns
\* current_verbose_state before the loop; stage 06 derives
\* langchain_executor_verbose from the root level
InitialVerbose(st, level) ==
    IF st = 5 THEN None ELSE Some(level <= LevelNo.INFO)

CliInit ==
    /\ stage \in {5, 6}
    /\ pc = "loop"
    /\ root_level = set_logging_level("ERROR")
    /\ verbose_state = InitialVerbose(stage, set_logging_level("ERROR"))
    /\ current_chat_history = Some(<<>>)
    /\ reads = 0
    /\ user_input = None
    /\ printed = <<>>
    /\ calls = 0
    /\ last_call = None
    /\ turn_outcome = "none"
    /\ last_verbose = "none"

\* the CLI at rest, for the specifications that do not run it
CliIdle ==
    /\ stage = 6
    /\ pc = "done"
    /\ root_level = set_logging_level("ERROR")
    /\ verbose_state = InitialVerbose(6, set_logging_level("ERROR"))
    /\ current_chat_history = Some(<<>>)
    /\ reads = 0
    /\ user_input = None
    /\ printed = <<>>
    /\ calls = 0
    /\ last_call = None
    /\ turn_outcome = "none"
    /\ last_verbose = "none"

\* input() returns line; the branch 'exit' / 'quit'
ReadExit(line) ==
    /\ pc = "loop" /\ reads < MaxReads
    /\ IsExit(line)
    /\ reads' = reads + 1
    /\ user_input' = Some(strip(line))
    /\ printed' = << <<"Chatbot: Goodbye!">> >>
    /\ pc' = "done"
    /\ turn_outcome' = "exit"
    /\ UNCHANGED <<stage, root_level, verbose_state, current_chat_history,
                   calls, last_call, last_verbose>>
    /\ UNCHANGED <<call_vars, db_vars, util_vars, read_vars>>

\* the branch 'turn verbose on'
ReadVerboseOn(line) ==
    /\ pc = "loop" /\ reads < MaxReads
    /\ IsVerboseOn(line)
    /\ reads' = reads + 1
    /\ user_input' = Some(strip(line))
    /\ root_level' = set_logging_level(VerboseOnLevel(stage))
    /\ verbose_state' = Some(TRUE)
    /\ printed' = << <<IF stage = 5
                       THEN "Chatbot: Verbose output is now ENABLED. You will see more detailed logs."
                       ELSE "Chatbot: Verbose output is now ENABLED. You will see detailed DEBUG logs.">> >>
    /\ turn_outcome' = "verbose_on"
    /\ last_verbose' = "on"
    /\ UNCHANGED <<stage, pc, current_chat_history, calls, last_call>>
    /\ UNCHANGED <<call_vars, db_vars, util_vars, read_vars>>

\* the branch 'turn verbose off'
ReadVerboseOff(line) ==
    /\ pc = "loop" /\ reads < MaxReads
    /\ IsVerboseOff(line)
    /\ reads' = reads + 1
    /\ user_input' = Some(strip(line))
    /\ root_level' = set_logging_level(VerboseOffLevel(stage))
    /\ verbose_state' = Some(FALSE)
    /\ printed' = << <<IF stage = 5
                       THEN "Chatbot: Verbose output is now DISABLED. Only important messages will be shown."
                       ELSE "Chatbot: Verbose output is now DISABLED. Only ERROR and CRITICAL messages will be shown.">> >>
    /\ turn_outcome' = "verbose_off"
    /\ last_verbose' = "off"
    /\ UNCHANGED <<stage, pc, current_chat_history, calls, last_call>>
    /\ UNCHANGED <<call_vars, db_vars, util_vars, read_vars>>

\* the try block: any other line is a question.  Reading an unassigned
\* current_verbose_state raises UnboundLocalError while the arguments of the
\* call are evaluated, which the except branch reports.
ReadQuestion(line) ==
    /\ pc = "loop" /\ reads < MaxReads
    /\ IsQuestion(line)
    /\ reads' = reads + 1
    /\ user_input' = Some(strip(line))
    /\ IF verbose_state = None
       THEN /\ printed' = << <<"Chatbot Error: An unexpected error occurred: ",
                               "cannot access local variable 'current_verbose_state' where it is not associated with a value">>,
                             <<"Please try again.">> >>
            /\ turn_outcome' = "exception"
            /\ UNCHANGED <<current_chat_history, calls, last_call>>
       ELSE \E setup \in SetupOutcomes, agent \in AgentOutcomes :
              LET r == get_gemini_response(strip(line), current_chat_history,
                                           Val(verbose_state), setup, agent)
              IN  /\ calls' = calls + 1
                  /\ last_call' = Some([prompt_text |-> strip(line),
                                        chat_history |-> current_chat_history,
                                        verbose |-> Val(verbose_state),
                                        invoked |-> r.invoked,
                                        response_text |-> r.text])
                  /\ printed' = << <<"Chatbot: ">> \o r.text >>
                  /\ current_chat_history' = r.history
                  /\ turn_outcome' = IF setup.raises THEN "config_error"
                                     ELSE IF agent.raises THEN "agent_error"
                                     ELSE "ok"
    /\ UNCHANGED <<stage, pc, root_level, verbose_state, last_verbose>>
    /\ UNCHANGED <<call_vars, db_vars, util_vars, read_vars>>

----------------------------------------------------------------------------
(* one direct call of get_gemini_response, as the __main__ tests make *)

Roles == {"human", "model", "system"}
Prompts == {<<"Q","1">>, <<"Q","2">>}
TurnTexts == {<<"Q","1">>, <<"Brasilia">>}
Turns == {Turn(r, t) : r \in Roles, t \in TurnTexts}

RECURSIVE SeqsUpTo(_, _)
SeqsUpTo(S, n) ==
    IF n = 0 THEN {<<>>}
    ELSE LET shorter == SeqsUpTo(S, n - 1)
         IN  shorter \cup {Append(q, x) : q \in shorter, x \in S}

Histories == {None} \cup {Some(h) : h \in SeqsUpTo(Turns, MaxHist)}

CallInit ==
    /\ g_pc = "ready"
    /\ g_prompt \in Prompts
    /\ g_history \in Histories
    /\ g_result = None

CallIdle ==
    /\ g_pc = "returned"
    /\ g_prompt = <<>>
    /\ g_history = None
    /\ g_result = None

Call ==
    /\ g_pc = "ready"
    /\ \E verbose \in BOOLEAN, setup \in SetupOutcomes, agent \in AgentOutcomes :
         g_result' = Some([setup |-> setup, agent |-> agent,
                           ret |-> get_gemini_response(g_prompt, g_history,
                                                       verbose, setup, agent)])
    /\ g_pc' = "returned"
    /\ UNCHANGED <<g_prompt, g_history>>
    /\ UNCHANGED <<cli_vars, db_vars, util_vars, read_vars>>

----------------------------------------------------------------------------
(* database_utils.get_engine and database_tool.query_database *)

\* Python truth of an optional string: None and "" are false
TruthyStr(o) == o # None /\ Val(o) # ""

MissingEnv ==
    "Database connection details (DB_USER, DB_PASSWORD, DB_DSN) not found in environment variables."

\* get_engine() with the global _engine, the environment and whether
\* create_engine and the test connection succeed (db.create = "ok") or raise
\* SQLAlchemyError: the exception raised, if any, and the new value of _engine
get_engine(eng, env, db) ==
    IF eng THEN [raises |-> FALSE, exc |-> "", msg |-> "", engine |-> TRUE]
    ELSE IF ~env
         THEN [raises |-> TRUE, exc |-> "ValueError", msg |-> MissingEnv,
               engine |-> FALSE]
         ELSE IF db.create # "ok"
              THEN [raises |-> TRUE, exc |-> "ConnectionError",
                    msg |-> "Failed to create SQLAlchemy engine or connect: "
                            \o db.create,
                    engine |-> FALSE]
              ELSE [raises |-> FALSE, exc |-> "", msg |-> "", engine |-> TRUE]

\* a variant that tests the optional arguments with "is not None"
base_query_not_none(a) ==
    LET q0 == "SELECT " \o a.select_columns \o " FROM " \o a.table_name
        q1 == IF a.conditions # None
              THEN q0 \o " WHERE " \o Val(a.conditions) ELSE q0
        q2 == IF a.group_by_columns # None
              THEN q1 \o " GROUP BY " \o Val(a.group_by_columns) ELSE q1
        q3 == IF a.order_by_columns # None
              THEN q2 \o " ORDER BY " \o Val(a.order_by_columns) ELSE q2
    IN  q3

\* the statement text before the limit is applied
base_query(a) ==
    LET q0 == "SELECT " \o a.select_columns \o " FROM " \o a.table_name
        q1 == IF TruthyStr(a.conditions)
              THEN q0 \o " WHERE " \o Val(a.conditions) ELSE q0
        q2 == IF TruthyStr(a.group_by_columns)
              THEN q1 \o " GROUP BY " \o Val(a.group_by_columns) ELSE q1
        q3 == IF TruthyStr(a.order_by_columns)
              THEN q2 \o " ORDER BY " \o Val(a.order_by_columns) ELSE q2
    IN  q3

\* a variant with the comparison off by one
LimitApplies_gt1(limit) == limit # None /\ Val(limit) > 1

\* if limit is not None and limit > 0
LimitApplies(limit) == limit # None /\ Val(limit) > 0

\* the text handed to connection.execute
query_string(a) ==
    IF LimitApplies(a.limit)
    THEN "SELECT * FROM (" \o base_query(a) \o ") WHERE ROWNUM <= "
         \o ToString(Val(a.limit))
    ELSE base_query(a)

\* the rows of the result: Oracle numbers the rows of the inner query from 1
\* and ROWNUM <= k keeps the first k of them
ColumnNames == <<"VIN", "MAKE">>
Row(i) == <<"V" \o ToString(i), "TESLA">>
InnerRows(n) == [i \in 1..n |-> Row(i)]
Min(a, b) == IF a <= b THEN a ELSE b
fetchall(a, n) ==
    IF LimitApplies(a.limit)
    THEN SubSeq(InnerRows(n), 1, Min(n, Val(a.limit)))
    ELSE InnerRows(n)

RECURSIVE join(_, _)
join(sep, xs) ==
    IF xs = <<>> THEN ""
    ELSE IF Len(xs) = 1 THEN xs[1]
         ELSE xs[1] \o sep \o join(sep, Tail(xs))

RECURSIVE repeat(_, _)
repeat(s, n) == IF n <= 0 THEN "" ELSE s \o repeat(s, n - 1)

RECURSIVE format_rows(_)
format_rows(rows) ==
    IF rows = <<>> THEN ""
    ELSE "| " \o join(" | ", Head(rows)) \o " |\n" \o format_rows(Tail(rows))

\* the Markdown table
formatted_results(column_names, rows) ==
    "| " \o join(" | ", column_names) \o " |\n"
    \o "| " \o repeat("---|", Len(column_names)) \o "\n"
    \o format_rows(rows)

QueryError(e) ==
    "Error performing database query: " \o e \o ". Please check the query components."

\* query_database(**a) with the global _engine, the environment and the
\* database's behaviour db: db.create, db.connect and db.execute are "ok" or
\* the message of the SQLAlchemy error raised there, db.rows is the number of
\* rows the inner query yields.  get_engine() is called before the try block.
query_database(a, eng, env, db) ==
    LET ge == get_engine(eng, env, db)
    IN  IF ge.raises
        THEN [raised |-> TRUE, exc |-> ge.exc, value |-> ge.msg,
              engine |-> ge.engine, sql |-> None, rows |-> <<>>]
        ELSE IF db.connect # "ok"
             THEN [raised |-> FALSE, exc |-> "", value |-> QueryError(db.connect),
                   engine |-> ge.engine, sql |-> None, rows |-> <<>>]
             ELSE IF db.execute # "ok"
                  THEN [raised |-> FALSE, exc |-> "",
                        value |-> QueryError(db.execute),
                        engine |-> ge.engine, sql |-> Some(query_string(a)),
                        rows |-> <<>>]
                  ELSE LET rows == fetchall(a, db.rows)
                       IN  [raised |-> FALSE, exc |-> "",
                            value |-> IF rows = <<>>
                                      THEN "No data found for the given criteria in "
                                           \o a.table_name \o "."
                                      ELSE formatted_results(ColumnNames, rows),
                            engine |-> ge.engine, sql |-> Some(query_string(a)),
                            rows |-> rows]

\* arguments the agent can pass
OptStrings(S) == {None} \cup {Some(x) : x \in S}
QueryArgs ==
    [table_name : {"EV"},
     select_columns : {"*", "MAKE, COUNT(*) AS N"},
     conditions : OptStrings({"", "MAKE = 'TESLA' OR 1=1"}),
     group_by_columns : OptStrings({"MAKE"}),
     order_by_columns : OptStrings({"N DESC"}),
     limit : {None} \cup {Some(k) : k \in -1..MaxLimit}]

\* what the database can do during one call
DbBehaviours ==
    {[create |-> "ORA-12541", connect |-> "ok", execute |-> "ok", rows |-> 0],
     [create |-> "ok", connect |-> "ORA-03113", execute |-> "ok", rows |-> 0],
     [create |-> "ok", connect |-> "ok", execute |-> "ORA-00942", rows |-> 0]}
    \cup {[create |-> "ok", connect |-> "ok", execute |-> "ok", rows |-> n] :
            n \in 0..MaxRows}

DbInit ==
    /\ env_ok \in BOOLEAN
    /\ engine = FALSE
    /\ q_pc = "idle"
    /\ q_args = None
    /\ q_db = None
    /\ q_sql = None
    /\ q_rows = <<>>
    /\ q_result = None

DbIdle ==
    /\ env_ok = TRUE
    /\ engine = FALSE
    /\ q_pc = "idle"
    /\ q_args = None
    /\ q_db = None
    /\ q_sql = None
    /\ q_rows = <<>>
    /\ q_result = None

\* the agent issues a tool call with arguments a
ToolCall(a) ==
    /\ q_pc \in {"idle", "returned"}
    /\ q_pc' = "called"
    /\ q_args' = Some(a)
    /\ q_db' = None
    /\ q_sql' = None
    /\ q_rows' = <<>>
    /\ q_result' = None
    /\ UNCHANGED <<env_ok, engine>>
    /\ UNCHANGED <<cli_vars, call_vars, util_vars, read_vars>>

\* query_database runs on the pending call while the database does db
QueryDatabase(db) ==
    /\ q_pc = "called"
    /\ LET r == query_database(Val(q_args), engine, env_ok, db)
       IN  /\ engine' = r.engine
           /\ q_sql' = r.sql
           /\ q_rows' = r.rows
           /\ q_result' = Some([raised |-> r.raised, exc |-> r.exc,
                                value |-> r.value])
    /\ q_db' = Some(db)
    /\ q_pc' = "returned"
    /\ UNCHANGED <<env_ok, q_args>>
    /\ UNCHANGED <<cli_vars, call_vars, util_vars, read_vars>>

----------------------------------------------------------------------------
(* database_utils of stage 06: get_table_reflection,                       *)
(* get_table_schema_string, _load_table_metadata, get_all_accessible_tables *)

\* str.upper()
UpperChar(c) ==
    IF \E i \in 1..Len(LowerCase) : LowerCase[i] = c
    THEN UpperCase[CHOOSE i \in 1..Len(LowerCase) : LowerCase[i] = c]
    ELSE c

upper(s) == [i \in 1..Len(s) |-> UpperChar(s[i])]

\* table names, character by character
N_ev == <<"e","v">>
N_orders == <<"o","r","d","e","r","s">>
N_Citi == <<"C","i","t","i">>
N_WHEREABOUTS == <<"W","H","E","R","E","A","B","O","U","T","S">>
N_none == <<"N","o","n","E","x","i","s","t","e","n","t">>

\* os.getenv("DB_TABLE_OWNER_SCHEMA")
DB_TABLE_OWNER_SCHEMA == "RW_USER"

\* the columns reflection finds for a table
Columns(table_name) ==
    IF table_name = N_orders
    THEN <<[name |-> <<"I","D">>, type |-> "NUMBER"]>>
    ELSE <<[name |-> <<"M","A","K","E">>, type |-> "VARCHAR(50)"],
           [name |-> <<"M","O","D","E","L">>, type |-> "VARCHAR(50)"]>>

NoSuchTable(table_name, schema) ==
    <<"Table '", table_name, "' not found in schema '", schema,
      "'. Please check table name casing and schema owner.">>

ReflectionError(table_name, e) ==
    <<"Error reflecting table '", table_name, "': ", e>>

\* get_table_reflection(table_name): get_engine() is called before the try
\* block; Table(..., autoload_with=engine) finds the table among tables,
\* raises NoSuchTableError, or raises another SQLAlchemyError (db.reflect is
\* then its message)
get_table_reflection(table_name, eng, env, db, tables) ==
    LET ge == get_engine(eng, env, db)
    IN  IF ge.raises
        THEN [raises |-> TRUE, exc |-> ge.exc, msg |-> <<ge.msg>>,
              engine |-> ge.engine, table |-> None]
        ELSE IF db.reflect # "ok"
             THEN [raises |-> TRUE, exc |-> "RuntimeError",
                   msg |-> ReflectionError(table_name, db.reflect),
                   engine |-> ge.engine, table |-> None]
             ELSE IF \A i \in 1..Len(tables) : tables[i] # table_name
                  THEN [raises |-> TRUE, exc |-> "ValueError",
                        msg |-> NoSuchTable(table_name, DB_TABLE_OWNER_SCHEMA),
                        engine |-> ge.engine, table |-> None]
                  ELSE [raises |-> FALSE, exc |-> "", msg |-> <<>>,
                        engine |-> ge.engine,
                        table |-> Some([name |-> table_name,
                                        columns |-> Columns(table_name)])]

RECURSIVE column_lines(_)
column_lines(cols) ==
    IF cols = <<>> THEN <<>>
    ELSE <<"- ", Head(cols).name, ": ", Head(cols).type, "\n">>
         \o column_lines(Tail(cols))

schema_info(table) ==
    <<"Table: ", DB_TABLE_OWNER_SCHEMA, ".", table.name, "\nColumns:\n">>
    \o column_lines(table.columns)

\* the exceptions get_table_schema_string catches
SchemaCaught == {"ValueError", "RuntimeError"}

\* get_table_schema_string(table_name): the string returned, or the exception
\* that leaves the function
get_table_schema_string(table_name, eng, env, db, tables) ==
    LET t == get_table_reflection(table_name, eng, env, db, tables)
    IN  IF ~t.raises
        THEN [raised |-> FALSE, exc |-> "", value |-> schema_info(Val(t.table)),
              engine |-> t.engine]
        ELSE IF t.exc \in SchemaCaught
             THEN [raised |-> FALSE, exc |-> "", value |-> t.msg,
                   engine |-> t.engine]
             ELSE [raised |-> TRUE, exc |-> t.exc, value |-> t.msg,
                   engine |-> t.engine]

\* what the database can do during a call of a helper
UtilDbBehaviours ==
    {[create |-> "ORA-12541", reflect |-> "ok", inspect |-> "ok"],
     [create |-> "ok", reflect |-> "ORA-03113", inspect |-> "ORA-03113"],
     [create |-> "ok", reflect |-> "ok", inspect |-> "ok"]}

\* the contents of table_metadata.json: the file is missing, is not JSON,
\* or holds an object, given as its key/value pairs in order
MetaPair(k, v) == [key |-> k, value |-> v]
MetaFiles ==
    {[state |-> "missing", pairs |-> <<>>],
     [state |-> "invalid", pairs |-> <<>>],
     [state |-> "ok", pairs |-> <<>>],
     [state |-> "ok", pairs |-> <<MetaPair(<<"E","v">>, "Electric vehicles")>>],
     [state |-> "ok",
      pairs |-> <<MetaPair(<<"E","v">>, "Electric vehicles"),
                  MetaPair(<<"O","R","D","E","R","S">>, "Customer orders"),
                  MetaPair(<<"e","V">>, "EV registrations")>>]}

\* {k.upper(): v for k, v in raw_metadata.items()}: a later pair replaces
\* the value of an earlier one with the same upper-cased key
upper_keyed(pairs) ==
    [k \in {upper(pairs[i].key) : i \in 1..Len(pairs)} |->
        LET last == CHOOSE i \in 1..Len(pairs) :
                        /\ upper(pairs[i].key) = k
                        /\ \A j \in (i + 1)..Len(pairs) : upper(pairs[j].key) # k
        IN  pairs[last].value]

\* _load_table_metadata(): the dictionary returned, which is also the new
\* value of _table_metadata_cache; a missing or undecodable file gives {}
_load_table_metadata(cache, file) ==
    IF cache # None THEN Val(cache)
    ELSE IF file.state = "ok" THEN upper_keyed(file.pairs) ELSE <<>>

NoDescription == "No specific description available."

\* metadata.get(key, default)
dict_get(d, key, default) == IF key \in DOMAIN d THEN d[key] ELSE default

\* the loop over db_tables: one entry per table the database shows
RECURSIVE described_tables(_, _)
described_tables(tables, metadata) ==
    IF tables = <<>> THEN <<>>
    ELSE <<[name |-> Head(tables),
            description |-> dict_get(metadata, upper(Head(tables)),
                                     NoDescription)]>>
         \o described_tables(Tail(tables), metadata)

\* get_all_accessible_tables(): get_engine() is called before the try block
\* and before the metadata is loaded; inspector.get_table_names gives tables,
\* or raises SQLAlchemyError (db.inspect is then its message) and [] is
\* returned.  engine.dispose() leaves the global _engine as it is.
get_all_accessible_tables(eng, env, db, cache, file, tables) ==
    LET ge == get_engine(eng, env, db)
        metadata == _load_table_metadata(cache, file)
    IN  IF ge.raises
        THEN [raised |-> TRUE, exc |-> ge.exc, value |-> <<>>,
              engine |-> ge.engine, cache |-> cache]
        ELSE IF db.inspect # "ok"
             THEN [raised |-> FALSE, exc |-> "", value |-> <<>>,
                   engine |-> ge.engine, cache |-> Some(metadata)]
             ELSE [raised |-> FALSE, exc |-> "",
                   value |-> described_tables(tables, metadata),
                   engine |-> ge.engine, cache |-> Some(metadata)]

\* the tables the schema can show
DbTableLists == {<<>>, <<N_ev>>, <<N_ev, N_orders>>, <<N_Citi, N_orders, N_ev>>}

UtilInit ==
    /\ meta_file \in MetaFiles
    /\ db_tables \in DbTableLists
    /\ table_metadata_cache = None
    /\ u_pc = "idle"
    /\ u_call = None
    /\ u_db = None
    /\ u_result = None

UtilIdle ==
    /\ meta_file = [state |-> "missing", pairs |-> <<>>]
    /\ db_tables = <<>>
    /\ table_metadata_cache = None
    /\ u_pc = "idle"
    /\ u_call = None
    /\ u_db = None
    /\ u_result = None

\* the names get_table_schema is asked about
SchemaRequests == {N_ev, N_orders, N_none}

\* the agent, or the __main__ test, calls get_table_schema_string(table_name)
SchemaCall(table_name) ==
    /\ u_pc \in {"idle", "returned"}
    /\ u_pc' = "called"
    /\ u_call' = Some([op |-> "get_table_schema_string",
                       table_name |-> table_name])
    /\ u_db' = None
    /\ u_result' = None
    /\ UNCHANGED <<meta_file, db_tables, table_metadata_cache>>
    /\ UNCHANGED <<cli_vars, call_vars, read_vars>>
    /\ UNCHANGED <<env_ok, engine, q_pc, q_args, q_db, q_sql, q_rows, q_result>>

\* get_table_schema_string runs on the pending call while the database does db
GetTableSchemaString(db) ==
    /\ u_pc = "called"
    /\ Val(u_call).op = "get_table_schema_string"
    /\ LET r == get_table_schema_string(Val(u_call).table_name, engine, env_ok,
                                        db, db_tables)
       IN  /\ engine' = r.engine
           /\ u_result' = Some([raised |-> r.raised, exc |-> r.exc,
                                value |-> r.value])
    /\ u_db' = Some(db)
    /\ u_pc' = "returned"
    /\ UNCHANGED <<meta_file, db_tables, table_metadata_cache, u_call>>
    /\ UNCHANGED <<cli_vars, call_vars, read_vars>>
    /\ UNCHANGED <<env_ok, q_pc, q_args, q_db, q_sql, q_rows, q_result>>

\* the agent, or the __main__ test, calls get_all_accessible_tables
ListCall ==
    /\ u_pc \in {"idle", "returned"}
    /\ u_pc' = "called"
    /\ u_call' = Some([op |-> "get_all_accessible_tables", table_name |-> <<>>])
    /\ u_db' = None
    /\ u_result' = None
    /\ UNCHANGED <<meta_file, db_tables, table_metadata_cache>>
    /\ UNCHANGED <<cli_vars, call_vars, read_vars>>
    /\ UNCHANGED <<env_ok, engine, q_pc, q_args, q_db, q_sql, q_rows, q_result>>

\* get_all_accessible_tables runs on the pending call while the database does db
GetAllAccessibleTables(db) ==
    /\ u_pc = "called"
    /\ Val(u_call).op = "get_all_accessible_tables"
    /\ LET r == get_all_accessible_tables(engine, env_ok, db,
                                          table_metadata_cache, meta_file,
                                          db_tables)
       IN  /\ engine' = r.engine
           /\ table_metadata_cache' = r.cache
           /\ u_result' = Some([raised |-> r.raised, exc |-> r.exc,
                                value |-> r.value])
    /\ u_db' = Some(db)
    /\ u_pc' = "returned"
    /\ UNCHANGED <<meta_file, db_tables, u_call>>
    /\ UNCHANGED <<cli_vars, call_vars, read_vars>>
    /\ UNCHANGED <<env_ok, q_pc, q_args, q_db, q_sql, q_rows, q_result>>

----------------------------------------------------------------------------
(* database_utils of stage 05: execute_read_query *)

\* str(n) for n >= 0
Digits == <<"0","1","2","3","4","5","6","7","8","9">>

RECURSIVE str_int(_)
str_int(n) ==
    IF n < 10 THEN <<Digits[n + 1]>>
    ELSE str_int(n \div 10) \o <<Digits[(n % 10) + 1]>>

\* pat in text
Contains(text, pat) ==
    \E i \in 1..(Len(text) - Len(pat) + 1) :
        SubSeq(text, i, i + Len(pat) - 1) = pat

\* sep.join(xs) on texts
RECURSIVE join_text(_, _)
join_text(sep, xs) ==
    IF xs = <<>> THEN <<>>
    ELSE IF Len(xs) = 1 THEN xs[1]
         ELSE xs[1] \o sep \o join_text(sep, Tail(xs))

\* the literal pieces of the statement
S_SELECT == <<"S","E","L","E","C","T"," ">>
S_FROM == <<" ","F","R","O","M"," ">>
S_WHERE == <<" ","W","H","E","R","E"," ">>
S_AND_ROWNUM == <<" ","A","N","D"," ","R","O","W","N","U","M"," ","<","="," ">>
S_WHERE_ROWNUM == <<" ","W","H","E","R","E"," ","R","O","W","N","U","M"," ","<","="," ">>
S_COMMA == <<","," ">>
W_WHERE == <<"W","H","E","R","E">>

\* [c.name for c in table.columns]
select_cols(table) == [i \in 1..Len(table.columns) |-> table.columns[i].name]

\* stmt_template: the select list, the table name and the optional WHERE
stmt_template(table, conditions) ==
    LET base == S_SELECT \o join_text(S_COMMA, select_cols(table))
                \o S_FROM \o table.name
    IN  IF Truthy(conditions) THEN base \o S_WHERE \o Val(conditions) ELSE base

\* the text of stmt: the ROWNUM test is appended with AND when the template
\* contains the letters WHERE, with WHERE otherwise
stmt_text(table, conditions, limit) ==
    LET t == stmt_template(table, conditions)
    IN  IF limit # None
        THEN IF Contains(t, W_WHERE)
             THEN t \o S_AND_ROWNUM \o str_int(Val(limit))
             ELSE t \o S_WHERE_ROWNUM \o str_int(Val(limit))
        ELSE t

(* The database: it splits the statement at spaces, reads SELECT <list> FROM *)
(* <table> [WHERE <condition>], where a condition is a disjunction (OR) of   *)
(* conjunctions (AND) of comparisons, AND binding tighter than OR, and       *)
(* rejects any other text.  ROWNUM is the number the next row returned would *)
(* get: it starts at 1 and grows with each row that passes the condition.    *)

IndexOf(seq, x) ==
    IF \E i \in 1..Len(seq) : seq[i] = x
    THEN CHOOSE i \in 1..Len(seq) : seq[i] = x /\ \A j \in 1..(i - 1) : seq[j] # x
    ELSE 0

RECURSIVE split(_, _)
split(seq, sep) ==
    LET i == IndexOf(seq, sep)
    IN  IF i = 0 THEN <<seq>>
        ELSE <<SubSeq(seq, 1, i - 1)>> \o split(SubSeq(seq, i + 1, Len(seq)), sep)

NonEmpty(x) == x # <<>>
Tokens(text) == SelectSeq(split(text, " "), NonEmpty)

T_SELECT == <<"S","E","L","E","C","T">>
T_FROM == <<"F","R","O","M">>
T_AND == <<"A","N","D">>
T_OR == <<"O","R">>
T_ROWNUM == <<"R","O","W","N","U","M">>
T_EQ == <<"=">>
T_LE == <<"<","=">>

IsNumber(tok) ==
    tok # <<>> /\ \A i \in 1..Len(tok) : \E d \in 1..Len(Digits) : Digits[d] = tok[i]

RECURSIVE parse_int(_)
parse_int(tok) ==
    IF tok = <<>> THEN 0
    ELSE parse_int(SubSeq(tok, 1, Len(tok) - 1)) * 10
         + (IndexOf(Digits, tok[Len(tok)]) - 1)

\* the condition as a sequence of conjunctions, each a sequence of comparisons
Disjuncts(expr) ==
    LET conjs == split(expr, T_OR)
    IN  [i \in 1..Len(conjs) |-> split(conjs[i], T_AND)]

ComparisonOk(atom, cols) ==
    /\ Len(atom) = 3
    /\ \/ atom[1] = T_ROWNUM /\ atom[2] = T_LE /\ IsNumber(atom[3])
       \/ IndexOf(cols, atom[1]) # 0 /\ atom[2] = T_EQ

ConditionOk(expr, cols) ==
    LET d == Disjuncts(expr)
    IN  \A i \in 1..Len(d) : \A j \in 1..Len(d[i]) : ComparisonOk(d[i][j], cols)

Compare(atom, row, rownum, cols) ==
    IF atom[1] = T_ROWNUM THEN rownum <= parse_int(atom[3])
    ELSE row[IndexOf(cols, atom[1])] = atom[3]

Holds(expr, row, rownum, cols) ==
    LET d == Disjuncts(expr)
    IN  \E i \in 1..Len(d) :
            \A j \in 1..Len(d[i]) : Compare(d[i][j], row, rownum, cols)

\* the rows that pass, in table order
RECURSIVE scan(_, _, _, _)
scan(rows, expr, rownum, cols) ==
    IF rows = <<>> THEN <<>>
    ELSE IF Holds(expr, Head(rows), rownum, cols)
         THEN <<Head(rows)>> \o scan(Tail(rows), expr, rownum + 1, cols)
         ELSE scan(Tail(rows), expr, rownum, cols)

\* connection.execute(stmt).fetchall(): the rows, or the error of a text
\* that is not a statement
execute_stmt(text, rows, cols) ==
    LET toks == Tokens(text)
        f == IndexOf(toks, T_FROM)
        rest == SubSeq(toks, f + 2, Len(toks))
    IN  IF ~(Len(toks) >= 4 /\ toks[1] = T_SELECT /\ f >= 3 /\ Len(toks) >= f + 1)
        THEN [error |-> "ORA-00923: FROM keyword not found where expected",
              rows |-> <<>>]
        ELSE IF rest = <<>> THEN [error |-> "ok", rows |-> rows]
        ELSE IF rest[1] # W_WHERE \/ Len(rest) = 1
                \/ ~ConditionOk(Tail(rest), cols)
             THEN [error |-> "ORA-00933: SQL command not properly ended",
                   rows |-> <<>>]
             ELSE [error |-> "ok", rows |-> scan(rows, Tail(rest), 1, cols)]

\* the header row and one line per row, joined by newlines
formatted_read(cols, rows) ==
    join_text(<<"\n">>,
              <<join_text(S_COMMA, cols)>>
              \o [i \in 1..Len(rows) |-> join_text(S_COMMA, rows[i])])

ReadError(e) == <<"Error executing query: ">> \o e

NoDataRead(table_name) ==
    <<"No data found in '", table_name, "' for the given conditions.">>

\* execute_read_query(a.table_name, a.conditions, a.limit) with the global
\* _engine, the environment, the database's behaviour db (db.create,
\* db.reflect and db.connect are "ok" or the message of the SQLAlchemy error
\* raised there), the tables of the schema and the rows they hold.
\* get_engine() is called before the try block.
execute_read_query(a, eng, env, db, tables, rows) ==
    LET ge == get_engine(eng, env, db)
        t == get_table_reflection(a.table_name, ge.engine, env, db, tables)
    IN  IF ge.raises
        THEN [raised |-> TRUE, exc |-> ge.exc, value |-> <<ge.msg>>,
              engine |-> ge.engine, stmt |-> None, rows |-> <<>>]
        ELSE IF t.raises
        THEN [raised |-> FALSE, exc |-> "", value |-> ReadError(t.msg),
              engine |-> ge.engine, stmt |-> None, rows |-> <<>>]
        ELSE IF db.connect # "ok"
        THEN [raised |-> FALSE, exc |-> "", value |-> ReadError(<<db.connect>>),
              engine |-> ge.engine, stmt |-> None, rows |-> <<>>]
        ELSE LET table == Val(t.table)
                 text == stmt_text(table, a.conditions, a.limit)
                 res == execute_stmt(text, rows, select_cols(table))
             IN  IF res.error # "ok"
                 THEN [raised |-> FALSE, exc |-> "",
                       value |-> ReadError(<<res.error>>),
                       engine |-> ge.engine, stmt |-> Some(text), rows |-> <<>>]
                 ELSE [raised |-> FALSE, exc |-> "",
                       value |-> IF res.rows = <<>>
                                 THEN NoDataRead(a.table_name)
                                 ELSE formatted_read(select_cols(table), res.rows),
                       engine |-> ge.engine, stmt |-> Some(text),
                       rows |-> res.rows]

\* the limit used when the argument is omitted
DefaultLimit == 5

\* the values of the columns MAKE and MODEL
V_T == <<"'","T","'">>
V_L == <<"'","L","'">>
V_X == <<"'","X","'">>
ReadRows == {<<V_T, V_X>>, <<V_L, V_X>>}

\* the tables of the schema execute_read_query is tried on
ReadTables == <<N_ev, N_WHEREABOUTS>>

\* the conditions tried
C_make == <<"M","A","K","E"," ","="," ","'","T","'">>
C_and == <<"M","A","K","E"," ","="," ","'","T","'"," ","A","N","D"," ","M","O","D","E","L"," ","="," ","'","X","'">>
C_or == <<"M","A","K","E"," ","="," ","'","T","'"," ","O","R"," ","M","O","D","E","L"," ","="," ","'","X","'">>

ReadArgs ==
    [table_name : {N_ev, N_WHEREABOUTS, N_none},
     conditions : {None, Some(<<>>), Some(C_make), Some(C_and), Some(C_or)},
     limit : {None, Some(DefaultLimit)} \cup {Some(k) : k \in 0..MaxLimit}]

ReadDbBehaviours ==
    {[create |-> "ORA-12541", reflect |-> "ok", connect |-> "ok"],
     [create |-> "ok", reflect |-> "ORA-03113", connect |-> "ok"],
     [create |-> "ok", reflect |-> "ok", connect |-> "ORA-03113"],
     [create |-> "ok", reflect |-> "ok", connect |-> "ok"]}

ReadInit ==
    /\ r_table \in SeqsUpTo(ReadRows, MaxTableRows)
    /\ r_pc = "idle"
    /\ r_args = None
    /\ r_db = None
    /\ r_stmt = None
    /\ r_rows = <<>>
    /\ r_result = None

\* a caller calls execute_read_query with arguments a
ReadCall(a) ==
    /\ r_pc = "idle"
    /\ r_pc' = "called"
    /\ r_args' = Some(a)
    /\ UNCHANGED <<r_table, r_db, r_stmt, r_rows, r_result>>
    /\ UNCHANGED <<cli_vars, call_vars, db_vars, util_vars>>

\* execute_read_query runs on the pending call while the database does db
ExecuteReadQuery(db) ==
    /\ r_pc = "called"
    /\ LET r == execute_read_query(Val(r_args), engine, env_ok, db,
                                   ReadTables, r_table)
       IN  /\ engine' = r.engine
           /\ r_stmt' = r.stmt
           /\ r_rows' = r.rows
           /\ r_result' = Some([raised |-> r.raised, exc |-> r.exc,
                                value |-> r.value])
    /\ r_db' = Some(db)
    /\ r_pc' = "returned"
    /\ UNCHANGED <<r_table, r_args>>
    /\ UNCHANGED <<cli_vars, call_vars, util_vars>>
    /\ UNCHANGED <<env_ok, q_pc, q_args, q_db, q_sql, q_rows, q_result>>

\* the caller prints the result and goes on
ReadDone ==
    /\ r_pc = "returned"
    /\ r_pc' = "idle"
    /\ r_args' = None
    /\ r_db' = None
    /\ r_stmt' = None
    /\ r_rows' = <<>>
    /\ r_result' = None
    /\ UNCHANGED r_table
    /\ UNCHANGED <<cli_vars, call_vars, db_vars, util_vars>>


ReadIdle ==
    /\ r_table = <<>>
    /\ r_pc = "idle"
    /\ r_args = None
    /\ r_db = None
    /\ r_stmt = None
    /\ r_rows = <<>>
    /\ r_result = None

----------------------------------------------------------------------------
(* Specifications *)

\* a session of the command-line chatbot
Init == CliInit /\ CallIdle /\ DbIdle /\ UtilIdle /\ ReadIdle
Next ==
    \/ \E line \in InputLines : ReadExit(line)
    \/ \E line \in InputLines : ReadVerboseOn(line)
    \/ \E line \in InputLines : ReadVerboseOff(line)
    \/ \E line \in InputLines : ReadQuestion(line)
Spec == Init /\ [][Next]_vars

\* one call of get_gemini_response on an arbitrary history
InitCall == CliIdle /\ CallInit /\ DbIdle /\ UtilIdle /\ ReadIdle
NextCall == Call
SpecCall == InitCall /\ [][NextCall]_vars

\* calls of query_database in one process
InitDb == CliIdle /\ CallIdle /\ DbInit /\ UtilIdle /\ ReadIdle
NextDb ==
    \/ \E a \in QueryArgs : ToolCall(a)
    \/ \E db \in DbBehaviours : QueryDatabase(db)
SpecDb == InitDb /\ [][NextDb]_vars

\* calls of the database_utils helpers of stage 06 in one process
InitUtils == CliIdle /\ CallIdle /\ DbInit /\ UtilInit /\ ReadIdle
NextUtils ==
    \/ \E t \in SchemaRequests : SchemaCall(t)
    \/ \E db \in UtilDbBehaviours : GetTableSchemaString(db)
    \/ ListCall
    \/ \E db \in UtilDbBehaviours : GetAllAccessibleTables(db)
SpecUtils == InitUtils /\ [][NextUtils]_vars

\* calls of execute_read_query (stage 05) in one process
InitRead == CliIdle /\ CallIdle /\ DbInit /\ UtilIdle /\ ReadInit
NextRead ==
    \/ \E a \in ReadArgs : ReadCall(a)
    \/ \E db \in ReadDbBehaviours : ExecuteReadQuery(db)
    \/ ReadDone
SpecRead == InitRead /\ [][NextRead]_vars

----------------------------------------------------------------------------
(* Properties *)

IsPrefix(p, q) == Len(p) <= Len(q) /\ SubSeq(q, 1, Len(p)) = p

\* the turns of an optional history
TurnsOf(h) == IF h = None THEN <<>> ELSE Val(h)

CallSucceeded ==
    /\ g_pc = "returned"
    /\ ~Val(g_result).setup.raises
    /\ ~Val(g_result).agent.raises

\* C1: when the agent invocation succeeds, get_gemini_response returns the
\* agent's output text and a history that is the passed history followed by
\* one human turn holding the prompt and one model turn holding the returned
\* text: the length grows by exactly 2 and the earlier turns are unchanged and
\* in the same order; a None or empty history yields a 2-turn history.
C1_SuccessAppendsTwoTurns ==
    CallSucceeded =>
        LET old == TurnsOf(g_history)
            ret == Val(g_result).ret
            new == Val(ret.history)
        IN  /\ ret.text = Val(g_result).agent.output
            /\ ret.history # None
            /\ Len(new) = Len(old) + 2
            /\ \A i \in 1..Len(old) : new[i] = old[i]
            /\ new[Len(old) + 1] = [role |-> "human",
                                    parts |-> <<[text |-> g_prompt]>>]
            /\ new[Len(old) + 2] = [role |-> "model",
                                    parts |-> <<[text |-> ret.text]>>]
            /\ (g_history \in {None, Some(<<>>)} => Len(new) = 2)

\* a successful call on a history of MaxHist turns
C1_Witness ==
    /\ CallSucceeded
    /\ g_history # None
    /\ Len(Val(g_history)) = MaxHist
    /\ Len(Val(Val(g_result).ret.history)) = MaxHist + 2

\* C2: in a CLI session, whatever the outcome of a turn, the history carried
\* into the next turn has the history of the previous turn as a prefix.
C2_HistoryNeverLost ==
    [][IsPrefix(Val(current_chat_history), Val(current_chat_history'))]_vars

\* the texts that are neither exit words nor verbose commands
IsQuestionText(t) == lower(t) \notin (ExitWords \cup {VerboseOn, VerboseOff})

\* C3: every input line that is not exit/quit and not a verbose command is
\* passed to get_gemini_response with the current history exactly once and
\* its response text is printed, from the first prompt of the session on.
C3_EveryQuestionIsSent ==
    [][(reads' = reads + 1 /\ IsQuestionText(Val(user_input')))
        => /\ calls' = calls + 1
           /\ Val(last_call').prompt_text = Val(user_input')
           /\ Val(last_call').chat_history = current_chat_history
           /\ printed' = << <<"Chatbot: ">> \o Val(last_call').response_text >>]_vars

\* C4: the command 'turn verbose off', in any letter case, sets the root
\* logger level to ERROR.
C4_VerboseOffSetsError ==
    (user_input # None /\ lower(Val(user_input)) = VerboseOff)
        => root_level = LevelNo.ERROR

C6_VerboseCommandsStayLocal ==
    [][(reads' = reads + 1
        /\ lower(Val(user_input')) \in {VerboseOn, VerboseOff})
       => /\ calls' = calls
          /\ last_call' = last_call
          /\ current_chat_history' = current_chat_history]_vars

\* a verbose command handled in the middle of a conversation
C6_Witness ==
    /\ turn_outcome \in {"verbose_on", "verbose_off"}
    /\ calls >= 1
    /\ Val(current_chat_history) # <<>>

QueryReturned == q_pc = "returned"

\* C8: query_database always returns a string and never raises: every failure
\* to obtain the engine, to connect, or to execute the statement is returned
\* as an 'Error performing database query: ...' message.
C8_QueryNeverRaises ==
    QueryReturned =>
        /\ ~Val(q_result).raised
        /\ (Val(q_db).connect # "ok" =>
              Val(q_result).value = "Error performing database query: "
                  \o Val(q_db).connect \o ". Please check the query components.")
        /\ (Val(q_db).connect = "ok" /\ Val(q_db).execute # "ok" =>
              Val(q_result).value = "Error performing database query: "
                  \o Val(q_db).execute \o ". Please check the query components.")

\* C9: for every integer limit that is passed (not None), the result contains
\* at most limit data rows.
C9_LimitBoundsRows ==
    (QueryReturned /\ Val(q_args).limit # None)
        => Len(q_rows) <= Val(Val(q_args).limit)

\* C9, amended: for every positive integer limit, the result contains at most
\* limit data rows; a limit of zero or less is ignored.
C9_PositiveLimitBoundsRows ==
    (QueryReturned /\ Val(q_args).limit # None /\ Val(Val(q_args).limit) > 0)
        => Len(q_rows) <= Val(Val(q_args).limit)

\* a query cut to its limit: the inner query yields more rows than returned
C9_Witness ==
    /\ QueryReturned
    /\ Val(q_args).limit = Some(1)
    /\ Val(q_db).execute = "ok"
    /\ Val(q_db).rows > 1
    /\ Len(q_rows) = 1

\* the clause an optional argument contributes
Clause(keyword, o) ==
    IF o = None \/ o = Some("") THEN "" ELSE keyword \o o[1]

\* 'SELECT <select_columns> FROM <table_name>' and the three clauses in order
PlainSelect(a) ==
    "SELECT " \o a.select_columns \o " FROM " \o a.table_name
    \o Clause(" WHERE ", a.conditions)
    \o Clause(" GROUP BY ", a.group_by_columns)
    \o Clause(" ORDER BY ", a.order_by_columns)

\* get_engine and connect succeeded, so the statement was built
QueryReachedExecute ==
    QueryReturned /\ ~Val(q_result).raised /\ Val(q_db).connect = "ok"

\* C10: the SQL text executed is 'SELECT <select_columns> FROM <table_name>'
\* followed in this order by ' WHERE <conditions>', ' GROUP BY
\* <group_by_columns>', ' ORDER BY <order_by_columns>', each present exactly
\* when its argument is non-empty, every argument verbatim; no call is
\* rejected because of the content of an argument.
C10_SqlIsPlainConcatenation ==
    QueryReachedExecute => q_sql = Some(PlainSelect(Val(q_args)))

\* C10, amended: that concatenation is the text executed when limit is None
\* or not positive; for a positive limit the text executed is the
\* concatenation wrapped as 'SELECT * FROM (<concatenation>) WHERE ROWNUM <=
\* <limit>'.  No call is rejected because of the content of an argument.
C10_SqlIsConcatenationWrappedByLimit ==
    QueryReachedExecute =>
        LET a == Val(q_args)
        IN  q_sql = Some(IF a.limit # None /\ Val(a.limit) >= 1
                         THEN "SELECT * FROM (" \o PlainSelect(a)
                              \o ") WHERE ROWNUM <= " \o ToString(Val(a.limit))
                         ELSE PlainSelect(a))

\* a statement with every clause and a positive limit reached execution
C10_Witness ==
    /\ QueryReachedExecute
    /\ Val(q_args).conditions = Some("MAKE = 'TESLA' OR 1=1")
    /\ Val(q_args).group_by_columns # None
    /\ Val(q_args).order_by_columns # None
    /\ Val(q_args).limit = Some(MaxLimit)
    /\ q_sql # None

UtilReturned(op) == u_pc = "returned" /\ Val(u_call).op = op

\* C11: get_table_schema_string never raises: for a table that does not
\* exist, and for every other failure of reflection or of obtaining the
\* engine, it returns the error message as a string.
C11_SchemaStringNeverRaises ==
    UtilReturned("get_table_schema_string") =>
        /\ ~Val(u_result).raised
        /\ (/\ env_ok /\ Val(u_db).create = "ok" /\ Val(u_db).reflect = "ok"
            /\ \A i \in 1..Len(db_tables) : db_tables[i] # Val(u_call).table_name)
           => Val(u_result).value =
                <<"Table '", Val(u_call).table_name, "' not found in schema '",
                  DB_TABLE_OWNER_SCHEMA,
                  "'. Please check table name casing and schema owner.">>

\* the table has an entry in the metadata file, keys compared in upper case
HasMetadataEntry(name) ==
    /\ meta_file.state = "ok"
    /\ \E i \in 1..Len(meta_file.pairs) :
         [j \in 1..Len(meta_file.pairs[i].key) |->
            UpperChar(meta_file.pairs[i].key[j])]
         = [j \in 1..Len(name) |-> UpperChar(name[j])]

VisibleInSchema(name) == \E i \in 1..Len(db_tables) : db_tables[i] = name

\* C12: a table is in the list get_all_accessible_tables returns only if it
\* is both visible in the database schema and has an entry in the loaded
\* table metadata.
C12_ListedTablesAreVisibleAndDescribed ==
    UtilReturned("get_all_accessible_tables") =>
        \A i \in 1..Len(Val(u_result).value) :
            /\ VisibleInSchema(Val(u_result).value[i].name)
            /\ HasMetadataEntry(Val(u_result).value[i].name)

ReadReturned == r_pc = "returned"

\* the row satisfies the conditions, AND binding tighter than OR
Satisfies(row, conditions) ==
    ~Truthy(conditions)
    \/ Holds(Tokens(Val(conditions)), row, 1, <<<<"M","A","K","E">>, <<"M","O","D","E","L">>>>)

\* C13: execute_read_query(table, conditions, limit) returns at most limit
\* rows (5 by default), and every returned row satisfies conditions, for
\* every conditions expression including ones that contain OR and for every
\* table or column name including ones that contain the letters WHERE.
C13_ReadIsLimitedAndFiltered ==
    ReadReturned =>
        /\ (Val(r_args).limit # None => Len(r_rows) <= Val(Val(r_args).limit))
        /\ \A i \in 1..Len(r_rows) : Satisfies(r_rows[i], Val(r_args).conditions)

\* the agent was invoked: setup_langchain_agent did not raise
AgentInvoked == g_pc = "returned" /\ Val(g_result).ret.invoked # None

\* the message list given to the agent
MessagesGiven == Val(Val(g_result).ret.invoked).chat_history

MessageOf(turn) ==
    IF turn.role = "human" THEN HumanMessage(turn.parts[1].text)
    ELSE AIMessage(turn.parts[1].text)

IsHumanOrModel(turn) == turn.role \in {"human", "model"}

====
